---- MODULE Spec2Model ----
(***************************************************************************)
(* Model of src/financial_tools.py: the five financial tools and the       *)
(* start-up code that builds the FINANCIAL_TOOLS registry.                 *)
(*                                                                         *)
(* Strings are sequences of one-character strings, so that strip, split,   *)
(* upper, lower and float() are computed character by character.  Python   *)
(* floats are modelled as exact rationals n/d in lowest terms plus the     *)
(* three special values nan, inf and -inf; binary rounding error is not    *)
(* modelled.  Optional[T] is a sequence of length 0 (None) or 1.           *)
(***************************************************************************)
EXTENDS Integers, Sequences, FiniteSets, TLC

VARIABLES pc, tavily_search, FINANCIAL_TOOLS, call, outcome

vars == <<pc, tavily_search, FINANCIAL_TOOLS, call, outcome>>

\* ------------------------------------------------------------------ bounds
\* Longest closing-price series the market-data client returns.
MaxHist == 3

\* ---------------------------------------------------------------- Optional
None == << >>
Some(x) == <<x>>
IsNone(o) == Len(o) = 0
IsSome(o) == Len(o) = 1
Get(o) == o[1]

\* ------------------------------------------------------------- str methods
Lowercase == <<"a","b","c","d","e","f","g","h","i","j","k","l","m",
               "n","o","p","q","r","s","t","u","v","w","x","y","z">>
Uppercase == <<"A","B","C","D","E","F","G","H","I","J","K","L","M",
               "N","O","P","Q","R","S","T","U","V","W","X","Y","Z">>
Digits == <<"0","1","2","3","4","5","6","7","8","9">>

IndexIn(c, seq) == IF \E i \in 1..Len(seq) : seq[i] = c
                   THEN CHOOSE i \in 1..Len(seq) : seq[i] = c
                   ELSE 0

upper_char(c) == IF IndexIn(c, Lowercase) > 0 THEN Uppercase[IndexIn(c, Lowercase)] ELSE c
lower_char(c) == IF IndexIn(c, Uppercase) > 0 THEN Lowercase[IndexIn(c, Uppercase)] ELSE c

\* str.upper() and str.lower()
upper(s) == [i \in 1..Len(s) |-> upper_char(s[i])]
lower(s) == [i \in 1..Len(s) |-> lower_char(s[i])]

isspace(c) == c \in {" ", "\t", "\n"}

RECURSIVE lstrip(_)
lstrip(s) == IF s # << >> /\ isspace(Head(s)) THEN lstrip(Tail(s)) ELSE s

RECURSIVE rstrip(_)
rstrip(s) == IF s # << >> /\ isspace(s[Len(s)]) THEN rstrip(SubSeq(s, 1, Len(s) - 1)) ELSE s

\* str.strip()
strip(s) == rstrip(lstrip(s))

\* str.split() with no separator: runs of whitespace separate the words and
\* no empty word is produced.  cur is the word being read.
RECURSIVE split_from(_, _)
split_from(s, cur) ==
    IF s = << >>
    THEN IF cur = << >> THEN << >> ELSE <<cur>>
    ELSE IF isspace(Head(s))
         THEN IF cur = << >> THEN split_from(Tail(s), << >>)
                             ELSE <<cur>> \o split_from(Tail(s), << >>)
         ELSE split_from(Tail(s), Append(cur, Head(s)))

split(s) == split_from(s, << >>)

\* ------------------------------------------------------------------ floats
Abs(x) == IF x < 0 THEN -x ELSE x

RECURSIVE GCD(_, _)
GCD(a, b) == IF b = 0 THEN a ELSE GCD(b, a % b)

RECURSIVE Pow10(_)
Pow10(k) == IF k = 0 THEN 1 ELSE 10 * Pow10(k - 1)

NaN == [k |-> "nan"]
PInf == [k |-> "inf"]
NInf == [k |-> "-inf"]
\* The finite value n/d, d > 0, in lowest terms.
Fin(n, d) == LET g == GCD(Abs(n), d) IN [k |-> "fin", n |-> n \div g, d |-> d \div g]
Zero == Fin(0, 1)

IsFin(v) == v.k = "fin"
Neg(v) == IF v.k = "fin" THEN Fin(-v.n, v.d)
          ELSE IF v.k = "inf" THEN NInf
          ELSE IF v.k = "-inf" THEN PInf ELSE NaN

\* IEEE comparisons: every comparison with nan is false, except !=.
FEq(a, b) == \/ a.k = "fin" /\ b.k = "fin" /\ a.n * b.d = b.n * a.d
             \/ a.k = b.k /\ a.k \in {"inf", "-inf"}
FLt(a, b) == \/ a.k = "fin" /\ b.k = "fin" /\ a.n * b.d < b.n * a.d
             \/ a.k = "-inf" /\ b.k \in {"fin", "inf"}
             \/ a.k = "fin" /\ b.k = "inf"
FLe(a, b) == FLt(a, b) \/ FEq(a, b)
FGt(a, b) == FLt(b, a)
FGe(a, b) == FLe(b, a)
FNe(a, b) == ~FEq(a, b)

\* The value of a string of decimal digits, and whether it is one.
IsDigits(s) == Len(s) > 0 /\ \A i \in 1..Len(s) : IndexIn(s[i], Digits) > 0
RECURSIVE DigitsValue(_)
DigitsValue(s) == IF s = << >> THEN 0
                  ELSE 10 * DigitsValue(SubSeq(s, 1, Len(s) - 1))
                       + (IndexIn(s[Len(s)], Digits) - 1)

\* float(str) on an unsigned word: nan, inf, infinity (any case), digits,
\* digits.digits, digits. and .digits.  Exponents and underscores are not
\* modelled; no word of the model uses them.
ParseUnsigned(s) ==
    LET low == lower(s)
        dot == IndexIn(".", s)
        ip  == IF dot = 0 THEN s ELSE SubSeq(s, 1, dot - 1)
        fp  == IF dot = 0 THEN << >> ELSE SubSeq(s, dot + 1, Len(s))
    IN  IF low = <<"n","a","n">> THEN Some(NaN)
        ELSE IF low = <<"i","n","f">> \/ low = <<"i","n","f","i","n","i","t","y">>
             THEN Some(PInf)
        ELSE IF /\ ip = << >> \/ IsDigits(ip)
                /\ fp = << >> \/ IsDigits(fp)
                /\ ip # << >> \/ fp # << >>
             THEN Some(Fin(DigitsValue(ip) * Pow10(Len(fp)) + DigitsValue(fp),
                           Pow10(Len(fp))))
        ELSE None

\* float(str): Some(value), or None where Python raises ValueError.
ParseFloat(tok) ==
    LET s == strip(tok)
    IN  IF s = << >> THEN None
        ELSE IF Head(s) = "-"
             THEN LET r == ParseUnsigned(Tail(s))
                  IN  IF IsNone(r) THEN None ELSE Some(Neg(Get(r)))
        ELSE IF Head(s) = "+" THEN ParseUnsigned(Tail(s))
        ELSE ParseUnsigned(s)

\* ------------------------------------------------------------- arithmetic
IsZero(v) == v.k = "fin" /\ v.n = 0
Sign(v) == IF v.k = "inf" THEN 1 ELSE IF v.k = "-inf" THEN -1
           ELSE IF v.n > 0 THEN 1 ELSE IF v.n < 0 THEN -1 ELSE 0
Signed(s) == IF s > 0 THEN PInf ELSE IF s < 0 THEN NInf ELSE NaN

\* A finite positive real that is no ratio of small integers (an irrational
\* power); only its being finite is tracked.
Real == [k |-> "real"]
\* A Python complex number (a negative base raised to a fractional power).
Complex == [k |-> "complex"]

Opaque(a, b) == IF "complex" \in {a.k, b.k} THEN Complex
                ELSE IF "nan" \in {a.k, b.k} THEN NaN
                ELSE Real

FAdd(a, b) ==
    IF a.k = "fin" /\ b.k = "fin" THEN Fin(a.n * b.d + b.n * a.d, a.d * b.d)
    ELSE IF {a.k, b.k} \cap {"complex", "nan"} # {} THEN Opaque(a, b)
    ELSE IF {a.k, b.k} = {"inf", "-inf"} THEN NaN
    ELSE IF "inf" \in {a.k, b.k} THEN PInf
    ELSE IF "-inf" \in {a.k, b.k} THEN NInf
    ELSE Real

FSub(a, b) == FAdd(a, IF b.k \in {"real", "complex", "nan"} THEN b ELSE Neg(b))

FMul(a, b) ==
    IF a.k = "fin" /\ b.k = "fin" THEN Fin(a.n * b.n, a.d * b.d)
    ELSE IF {a.k, b.k} \cap {"complex", "nan"} # {} THEN Opaque(a, b)
    ELSE IF {a.k, b.k} \cap {"inf", "-inf"} # {}
         THEN IF "real" \in {a.k, b.k}
              THEN (IF "inf" \in {a.k, b.k} THEN PInf ELSE NInf)
              ELSE Signed(Sign(a) * Sign(b))
    ELSE IF IsZero(a) \/ IsZero(b) THEN Zero
    ELSE Real

\* IEEE division, as numpy computes it: x/0 is +-inf and 0/0 is nan.
FDivIEEE(a, b) ==
    IF a.k = "fin" /\ b.k = "fin"
    THEN IF b.n = 0 THEN Signed(Sign(a))
         ELSE Fin(a.n * b.d * Sign(b), a.d * Abs(b.n))
    ELSE IF {a.k, b.k} \cap {"complex", "nan"} # {} THEN Opaque(a, b)
    ELSE IF a.k \in {"inf", "-inf"} /\ b.k \in {"inf", "-inf"} THEN NaN
    ELSE IF b.k \in {"inf", "-inf"} THEN Zero
    ELSE IF a.k \in {"inf", "-inf"}
         THEN IF b.k = "real" THEN a
              ELSE Signed(Sign(a) * (IF IsZero(b) THEN 1 ELSE Sign(b)))
    ELSE Real

\* Python's float / float: None where it raises ZeroDivisionError.
FDiv(a, b) == IF IsZero(b) THEN None ELSE Some(FDivIEEE(a, b))

\* The integer nearest to n/d (d > 0), ties to the even one.
RoundHalfEven(n, d) ==
    LET q == n \div d
        r == n - q * d
    IN  IF 2 * r < d THEN q
        ELSE IF 2 * r > d THEN q + 1
        ELSE IF q % 2 = 0 THEN q ELSE q + 1

\* round(x, ndigits) on a float: nan and the infinities are returned as
\* they are.  (round() of a complex raises; the callers test for it.)
FRound(v, ndigits) ==
    IF v.k # "fin" THEN v
    ELSE LET q == v.n \div v.d
             r == v.n - q * v.d
         IN  Fin(q * Pow10(ndigits) + RoundHalfEven(r * Pow10(ndigits), v.d),
                 Pow10(ndigits))

RECURSIVE IPow(_, _)
IPow(b, e) == IF e = 0 THEN 1 ELSE b * IPow(b, e - 1)

\* Python's float ** float for an exponent that passed "years > 0" (so the
\* exponent is positive, +inf or nan).
FPow(b, y) ==
    IF y.k = "nan" THEN (IF FEq(b, Fin(1, 1)) THEN Fin(1, 1) ELSE NaN)
    ELSE IF b.k = "nan" THEN NaN
    ELSE IF y.k = "inf"
         THEN IF b.k # "fin" THEN PInf
              ELSE IF Abs(b.n) > b.d THEN PInf
              ELSE IF Abs(b.n) < b.d THEN Zero
              ELSE Fin(1, 1)
    ELSE IF b.k = "inf" THEN PInf
    ELSE IF b.k = "-inf"
         THEN IF y.d = 1 /\ y.n % 2 = 1 THEN NInf ELSE PInf
    ELSE IF y.d = 1 THEN Fin(IPow(b.n, y.n), IPow(b.d, y.n))
    ELSE IF b.n < 0 THEN Complex
    ELSE IF b.n = 0 THEN Zero
    ELSE IF b.n = b.d THEN Fin(1, 1)
    ELSE Real

\* -------------------------------------------------------------------- text
\* A formatted string is the sequence of its pieces: literal text, an
\* interpolated str, an interpolated number with its format.  "" is << >>.
Lit(s) == [lit |-> s]
Str(cs) == [str |-> cs]
Num(v, fmt) == [num |-> v, fmt |-> fmt]

PieceNonEmpty(p) == IF "lit" \in DOMAIN p THEN p.lit # ""
                    ELSE IF "str" \in DOMAIN p THEN Len(p.str) > 0
                    ELSE TRUE
\* len(text) > 0
NonEmpty(text) == \E i \in 1..Len(text) : PieceNonEmpty(text[i])

\* -------------------------------------------------- control flow of a tool
\* What a try body or a whole tool call ends with: a returned record (path
\* names the return statement that produced it) or a raised exception.
Ret(path, rec) == [kind |-> "return", path |-> path, value |-> rec]
Exc(msg) == [kind |-> "raise", msg |-> msg]

\* Mutant: the except clause is missing, the exception reaches the caller.
NoExcept(body, handled) == body

\* try: body / except Exception as e: handler(e)
TryExcept(body, handled) == IF body.kind = "raise" THEN handled ELSE body

\* ------------------------------------------------------ market-data client
\* A field of the quote mapping: absent (info.get gives None), a number, or
\* a string.
Absent == [t |-> "none"]
NumField(v) == [t |-> "num", v |-> v]
StrField(cs) == [t |-> "str", s |-> cs]

\* Python truthiness of a field value, and "a or b".
Truthy(f) == \/ f.t = "num" /\ ~IsZero(f.v)
             \/ f.t = "str" /\ Len(f.s) > 0
Or(a, b) == IF Truthy(a) THEN a ELSE b
ToOptional(f) == IF f.t = "none" THEN None ELSE IF f.t = "str" THEN Some(f.s) ELSE Some(f.v)

\* Messages of the exceptions the market-data client raises; str(e) may be
\* empty.
UpstreamErrors == {<<Lit("HTTP Error 404: Not Found")>>, << >>}

NA == StrField(<<"n","/","a">>)
PriceFields == {Absent, NumField(Zero), NumField(Fin(15025, 100)), NA}
AmountFields == {Absent, NumField(Fin(2500000, 1)), NA}

QuoteInfos == [currentPrice : PriceFields, regularMarketPrice : PriceFields,
               marketCap : AmountFields,
               trailingPE : {Absent, NumField(Fin(285, 10)), NA},
               forwardPE : {Absent, NumField(Fin(24, 1))},
               fiftyTwoWeekHigh : {Absent, NumField(Fin(199, 1)), NA},
               fiftyTwoWeekLow : {Absent, NumField(Fin(124, 1))}]

\* What yf.Ticker(symbol).info does: raises, gives something that is no
\* mapping (None), or gives the quote mapping.
QuoteResponses == [kind : {"raise"}, msg : UpstreamErrors]
                  \cup {[kind |-> "notmapping"]}
                  \cup [kind : {"info"}, info : QuoteInfos]

\* Ticker strings the callers pass.
Symbols == { <<"a","a","p","l">>, <<" ","T","s","l","a"," ">>, << >> }

\* ---------------------------------------------------------- get_stock_price
StockPriceData(symbol, current_price, market_cap, pe_ratio, week_52_high, week_52_low, formatted_summary, error) ==
    [symbol |-> symbol, current_price |-> current_price, market_cap |-> market_cap,
     pe_ratio |-> pe_ratio, week_52_high |-> week_52_high,
     week_52_low |-> week_52_low, formatted_summary |-> formatted_summary,
     error |-> error]

\* int(x) of a finite float: truncation toward zero.
IntOf(v) == Fin(Sign(v) * (Abs(v.n) \div v.d), 1)

FormatError == <<Lit("Unknown format code 'f' for object of type 'str'")>>
ValidationError == <<Lit("validation error: Input should be a valid number")>>

\* Mutant: the except clause leaves error at its default, None.
get_stock_price_except_no_error(symbol, e) ==
    Ret("except",
        StockPriceData(symbol, None, None, None, None, None,
                       <<Lit("Error retrieving stock data for "), Str(symbol),
                         Lit(": ")>> \o e,
                       None))

\* The except clause of get_stock_price; symbol is the normalised local.
get_stock_price_except(symbol, e) ==
    Ret("except",
        StockPriceData(symbol, None, None, None, None, None,
                       <<Lit("Error retrieving stock data for "), Str(symbol),
                         Lit(": ")>> \o e,
                       Some(e)))

\* The try body of get_stock_price.
get_stock_price_try(symbol, up) ==
    IF up.kind = "raise" THEN Exc(up.msg)
    ELSE IF up.kind = "notmapping"
         THEN Exc(<<Lit("'NoneType' object has no attribute 'get'")>>)
    ELSE
    LET info == up.info
        current_price == Or(info.currentPrice, info.regularMarketPrice)
        market_cap_raw == info.marketCap
        pe_ratio == Or(info.trailingPE, info.forwardPE)
        week_52_high == info.fiftyTwoWeekHigh
        week_52_low == info.fiftyTwoWeekLow
        market_cap == IF Truthy(market_cap_raw) /\ market_cap_raw.t = "num"
                      THEN NumField(IntOf(market_cap_raw.v)) ELSE market_cap_raw
        summary_parts ==
            <<Lit("Stock: "), Str(symbol)>>
            \o (IF Truthy(current_price)
                THEN <<Lit(" | Price: $"), Num(current_price.v, ".2f")>> ELSE << >>)
            \o (IF Truthy(market_cap)
                THEN <<Lit(" | Market Cap: $"), Num(market_cap.v, ",")>> ELSE << >>)
            \o (IF Truthy(pe_ratio)
                THEN <<Lit(" | P/E: "), Num(pe_ratio.v, ".2f")>> ELSE << >>)
            \o (IF Truthy(week_52_high) /\ Truthy(week_52_low)
                THEN <<Lit(" | 52W Range: $"), Num(week_52_low.v, ".2f"),
                       Lit(" - $"), Num(week_52_high.v, ".2f")>> ELSE << >>)
    IN  IF Truthy(market_cap_raw) /\ market_cap_raw.t = "str"
        THEN Exc(<<Lit("invalid literal for int() with base 10: "),
                   Str(market_cap_raw.s)>>)
        ELSE IF Truthy(current_price) /\ current_price.t = "str" THEN Exc(FormatError)
        ELSE IF Truthy(pe_ratio) /\ pe_ratio.t = "str" THEN Exc(FormatError)
        ELSE IF /\ Truthy(week_52_high) /\ Truthy(week_52_low)
                /\ "str" \in {week_52_high.t, week_52_low.t} THEN Exc(FormatError)
        ELSE IF "str" \in {current_price.t, market_cap.t, pe_ratio.t,
                           week_52_high.t, week_52_low.t}
             THEN Exc(ValidationError)
        ELSE Ret("try",
                 StockPriceData(symbol, ToOptional(current_price),
                                ToOptional(market_cap), ToOptional(pe_ratio),
                                ToOptional(week_52_high), ToOptional(week_52_low),
                                summary_parts, None))

get_stock_price(symbol_arg, up) ==
    LET symbol == strip(upper(symbol_arg))
        body == get_stock_price_try(symbol, up)
    IN  TryExcept(body, get_stock_price_except(symbol, IF body.kind = "raise"
                                                       THEN body.msg ELSE << >>))

\* --------------------------------------------------------- get_company_info
CompanyInfo(symbol, name, sector, industry, country, employees, business_summary, error) ==
    [symbol |-> symbol, name |-> name, sector |-> sector, industry |-> industry,
     country |-> country, employees |-> employees,
     business_summary |-> business_summary, error |-> error]

Text(cs) == StrField(cs)
BadText == NumField(Fin(7, 1))

ProfileInfos == [longName : {Absent, Text(<<"A","p","p","l","e">>), BadText},
                 shortName : {Absent, Text(<<"A","p","l">>)},
                 sector : {Absent, Text(<<"T","e","c","h">>), BadText},
                 industry : {Absent, Text(<<"H","W">>)},
                 country : {Absent, Text(<<"U","S">>)},
                 fullTimeEmployees : {Absent, NumField(Fin(164000, 1)), NA},
                 longBusinessSummary : {Absent, Text(<<"M","a","k","e","s">>), BadText}]

ProfileResponses == [kind : {"raise"}, msg : UpstreamErrors]
                    \cup {[kind |-> "notmapping"]}
                    \cup [kind : {"info"}, info : ProfileInfos]

get_company_info_except(symbol, e) ==
    Ret("except",
        CompanyInfo(symbol, None, None, None, None, None,
                    Some(<<Lit("Error retrieving company info for "), Str(symbol),
                           Lit(": ")>> \o e),
                    Some(e)))

get_company_info_try(symbol, up) ==
    IF up.kind = "raise" THEN Exc(up.msg)
    ELSE IF up.kind = "notmapping"
         THEN Exc(<<Lit("'NoneType' object has no attribute 'get'")>>)
    ELSE
    LET info == up.info
        name == Or(info.longName, info.shortName)
        business_summary ==
            IF info.longBusinessSummary.t = "none"
            THEN Some(<<Lit("No business summary available")>>)
            ELSE Some(<<Str(info.longBusinessSummary.s)>>)
    IN  IF \/ "num" \in {name.t, info.sector.t, info.industry.t, info.country.t,
                         info.longBusinessSummary.t}
           \/ info.fullTimeEmployees.t = "str"
        THEN Exc(<<Lit("validation error for CompanyInfo")>>)
        ELSE Ret("try",
                 CompanyInfo(symbol, ToOptional(name), ToOptional(info.sector),
                             ToOptional(info.industry), ToOptional(info.country),
                             ToOptional(info.fullTimeEmployees),
                             business_summary, None))

get_company_info(symbol_arg, up) ==
    LET symbol == strip(upper(symbol_arg))
        body == get_company_info_try(symbol, up)
    IN  TryExcept(body, get_company_info_except(symbol, IF body.kind = "raise"
                                                        THEN body.msg ELSE << >>))

\* ---------------------------------------------------- get_financial_history
\* A query string: the words joined by single spaces, between pad and pad.
RECURSIVE Join(_)
Join(words) == IF words = << >> THEN << >>
               ELSE IF Len(words) = 1 THEN words[1]
               ELSE words[1] \o <<" ">> \o Join(Tail(words))
Padded(pad, words) == pad \o Join(words) \o pad
Pads == { << >>, <<" ", " ">> }

\* Closing prices the market-data client reports: positive, to a tenth of a
\* cent.
Closes == {Fin(1000, 1000), Fin(1004, 1000), Fin(1500, 1000),
           Fin(45004, 1000), Fin(45006, 1000)}

RECURSIVE SeqsUpTo(_, _)
SeqsUpTo(S, n) == IF n = 0 THEN { << >> }
                  ELSE LET shorter == SeqsUpTo(S, n - 1)
                       IN  shorter \cup {Append(q, x) : q \in {r \in shorter : Len(r) = n - 1},
                                                        x \in S}

\* What yf.Ticker(symbol).history(period=period) does: raises, gives a frame
\* without a Close column, or gives the frame of closes (empty or not).
HistoryResponses == [kind : {"raise"}, msg : UpstreamErrors]
                    \cup {[kind |-> "noclose"]}
                    \cup [kind : {"frame"}, close : SeqsUpTo(Closes, MaxHist)]

HistoryQueries == { <<"a","a","p","l"," ","5","Y">>, <<" ","t","s","l","a"," ">>,
                    << >> }

FinancialHistoryResult(symbol, period, start_price, end_price, total_return_percent, cagr_percent, volatility_percent, max_drawdown_percent, trading_days, formatted_summary, error) ==
    [symbol |-> symbol, period |-> period, start_price |-> start_price,
     end_price |-> end_price, total_return_percent |-> total_return_percent,
     cagr_percent |-> cagr_percent, volatility_percent |-> volatility_percent,
     max_drawdown_percent |-> max_drawdown_percent, trading_days |-> trading_days,
     formatted_summary |-> formatted_summary, error |-> error]

Hundred == Fin(100, 1)
One == Fin(1, 1)

\* Series.expanding().max(): the running maximum.
RECURSIVE expanding_max(_)
expanding_max(c) ==
    IF Len(c) <= 1 THEN c
    ELSE LET prev == expanding_max(SubSeq(c, 1, Len(c) - 1))
             last == c[Len(c)]
         IN  Append(prev, IF FGt(last, prev[Len(prev)]) THEN last ELSE prev[Len(prev)])

\* Series.min(): the least value, nan values skipped; nan if none is left.
RECURSIVE series_min(_)
series_min(c) ==
    IF c = << >> THEN NaN
    ELSE LET rest == series_min(Tail(c))
         IN  IF Head(c).k = "nan" THEN rest
             ELSE IF rest.k = "nan" THEN Head(c)
             ELSE IF FLt(Head(c), rest) THEN Head(c) ELSE rest

\* Series.pct_change().dropna(): the simple returns between consecutive closes.
pct_change(c) == [i \in 1..(Len(c) - 1) |-> FSub(FDivIEEE(c[i + 1], c[i]), One)]

\* Series.std() * sqrt(252) * 100 with ddof = 1: nan for fewer than two values,
\* 0 when they are all equal, else an irrational.
volatility_of(returns) ==
    IF Len(returns) < 2 THEN NaN
    ELSE IF \A i \in 1..Len(returns) : FEq(returns[i], returns[1]) THEN Zero
    ELSE Real

\* (ratio ** (1/years) - 1) * 100 for years = N/252: the exponent is 252/N,
\* so only the powers of 1 and 0 are ratios of small integers.
cagr_of(ratio, n) ==
    IF n <= 0 THEN Zero
    ELSE IF FEq(ratio, One) THEN Zero
    ELSE IF IsZero(ratio) THEN Neg(Hundred)
    ELSE Real

\* Mutant: the emptiness test is missing.
hist_empty_never(close) == FALSE

\* hist.empty
hist_empty(close) == Len(close) = 0

\* Mutant: the difference is taken the wrong way round.
total_return_reversed(start_price, end_price) ==
    FMul(FDivIEEE(FSub(start_price, end_price), start_price), Hundred)

\* ((end_price - start_price) / start_price) * 100
total_return_of(start_price, end_price) ==
    FMul(FDivIEEE(FSub(end_price, start_price), start_price), Hundred)

\* Mutant: the drawdown is reported as a positive magnitude.
max_drawdown_magnitude(close) ==
    LET rolling_max == expanding_max(close)
        drawdown == [i \in 1..Len(close) |->
                        FDivIEEE(FSub(close[i], rolling_max[i]), rolling_max[i])]
    IN  FMul(series_min(drawdown), Neg(Hundred))

\* drawdown.min() * 100, the drawdown taken from the running maximum
max_drawdown_of(close) ==
    LET rolling_max == expanding_max(close)
        drawdown == [i \in 1..Len(close) |->
                        FDivIEEE(FSub(close[i], rolling_max[i]), rolling_max[i])]
    IN  FMul(series_min(drawdown), Hundred)

get_financial_history_except(locals, e) ==
    Ret("except",
        FinancialHistoryResult(
            IF IsSome(locals.symbol) THEN Get(locals.symbol) ELSE <<"U","N","K","N","O","W","N">>,
            IF IsSome(locals.period) THEN Get(locals.period) ELSE <<"U","N","K","N","O","W","N">>,
            None, None, None, None, None, None, None,
            Some(<<Lit("Error retrieving financial history: ")>> \o e),
            Some(e)))

\* The try body of get_financial_history; an exception carries the locals
\* bound when it was raised.
get_financial_history_try(query, up) ==
    LET parts == split(strip(query))
        symbol == IF parts # << >> THEN upper(parts[1]) ELSE upper(query)
        period == IF Len(parts) > 1 THEN lower(parts[2]) ELSE <<"1","y">>
        locals == [symbol |-> Some(symbol), period |-> Some(period)]
    IN  IF up.kind = "raise" THEN [kind |-> "raise", msg |-> up.msg, locals |-> locals]
        ELSE IF up.kind = "frame" /\ hist_empty(up.close)
             THEN Ret("empty",
                      FinancialHistoryResult(symbol, period, None, None, None, None,
                          None, None, None,
                          Some(<<Lit("No historical data available for "), Str(symbol)>>),
                          Some(<<Lit("No data available")>>)))
        ELSE IF up.kind = "noclose"
             THEN [kind |-> "raise", msg |-> <<Lit("'Close'")>>, locals |-> locals]
        ELSE IF up.close = << >>
             THEN [kind |-> "raise", locals |-> locals,
                   msg |-> <<Lit("single positional indexer is out-of-bounds")>>]
        ELSE
        LET hist == up.close
            start_price == hist[1]
            end_price == hist[Len(hist)]
            total_return == total_return_of(start_price, end_price)
            cagr == cagr_of(FDivIEEE(end_price, start_price), Len(hist))
            volatility == volatility_of(pct_change(hist))
            max_drawdown == max_drawdown_of(hist)
            formatted_summary ==
                <<Str(symbol), Lit(" Performance ("), Str(period),
                  Lit("): Total Return: "), Num(total_return, ".2f"),
                  Lit("%, CAGR: "), Num(cagr, ".2f"),
                  Lit("%, Volatility: "), Num(volatility, ".2f"),
                  Lit("%, Max Drawdown: "), Num(max_drawdown, ".2f"), Lit("%")>>
        IN  Ret("try",
                FinancialHistoryResult(symbol, period,
                    Some(FRound(start_price, 2)), Some(FRound(end_price, 2)),
                    Some(FRound(total_return, 2)), Some(FRound(cagr, 2)),
                    Some(FRound(volatility, 2)), Some(FRound(max_drawdown, 2)),
                    Some(Len(hist)), Some(formatted_summary), None))

get_financial_history(query, up) ==
    LET body == get_financial_history_try(query, up)
    IN  TryExcept(body,
                  IF body.kind = "raise"
                  THEN get_financial_history_except(body.locals, body.msg)
                  ELSE body)

\* ------------------------------------------------ calculate_compound_growth
CompoundGrowthResult(principal, annual_rate, years, future_value, total_growth, total_return_percent, formatted_summary, error) ==
    [principal |-> principal, annual_rate |-> annual_rate, years |-> years,
     future_value |-> future_value, total_growth |-> total_growth,
     total_return_percent |-> total_return_percent,
     formatted_summary |-> formatted_summary, error |-> error]

FloatError(tok) == <<Lit("could not convert string to float: "), Str(tok)>>
RoundError == <<Lit("type complex doesn't define __round__ method")>>

PrincipalWords == { <<"1","0","0","0","0">>, <<"0">>, <<"-","5">>, <<"n","a","n">>,
                    <<"i","n","f">>, <<"a","b","c">> }
RateWords == { <<"0",".","0","7">>, <<"-","2">>, <<"N","a","N">> }
YearsWords == { <<"2">>, <<"0">>, <<"0",".","5">>, <<"-","1">>, <<"n","a","n">> }

GrowthWordLists ==
    { << >> }
    \cup { <<p>> : p \in PrincipalWords }
    \cup { <<p, r>> : p \in PrincipalWords, r \in RateWords }
    \cup { <<p, r, y>> : p \in PrincipalWords, r \in RateWords, y \in YearsWords }
    \cup { <<p, r, y, <<"x">> >> : p \in {<<"1","0","0","0","0">>},
                                   r \in {<<"0",".","0","7">>}, y \in YearsWords }

GrowthQueries == { Padded(pad, w) : pad \in Pads, w \in GrowthWordLists }

\* Mutant: error is str(e), without the "Calculation error: " prefix.
calculate_compound_growth_except_bare(e) ==
    Ret("except",
        CompoundGrowthResult(Zero, Zero, Zero, Zero, Zero, Zero, << >>, Some(e)))

calculate_compound_growth_except(e) ==
    Ret("except",
        CompoundGrowthResult(Zero, Zero, Zero, Zero, Zero, Zero, << >>,
                             Some(<<Lit("Calculation error: ")>> \o e)))

\* if years <= 0 or principal <= 0
NotPositive(principal, years) == FLe(years, Zero) \/ FLe(principal, Zero)

calculate_compound_growth_try(query) ==
    LET parts == split(strip(query))
    IN  IF Len(parts) < 3
        THEN Exc(<<Lit("Query must contain principal, annual_rate, and years")>>)
        ELSE IF IsNone(ParseFloat(parts[1])) THEN Exc(FloatError(parts[1]))
        ELSE IF IsNone(ParseFloat(parts[2])) THEN Exc(FloatError(parts[2]))
        ELSE IF IsNone(ParseFloat(parts[3])) THEN Exc(FloatError(parts[3]))
        ELSE
        LET principal == Get(ParseFloat(parts[1]))
            annual_rate == Get(ParseFloat(parts[2]))
            years == Get(ParseFloat(parts[3]))
            future_value == FMul(principal, FPow(FAdd(One, annual_rate), years))
            total_growth == FSub(future_value, principal)
            ratio == FDiv(future_value, principal)
            total_return_pct == FMul(FSub(Get(ratio), One), Hundred)
            formatted_summary ==
                <<Lit("Investment: $"), Num(principal, ",.2f"), Lit(" at "),
                  Num(FMul(annual_rate, Hundred), ".2f"), Lit("% for "),
                  Num(years, ""), Lit(" years -> Future Value: $"),
                  Num(future_value, ",.2f"), Lit(" (Total Return: "),
                  Num(total_return_pct, ".2f"), Lit("%)")>>
        IN  IF NotPositive(principal, years)
            THEN Exc(<<Lit("Principal and years must be positive")>>)
            ELSE IF IsNone(ratio) THEN Exc(<<Lit("float division by zero")>>)
            ELSE IF future_value.k = "complex" THEN Exc(RoundError)
            ELSE Ret("try",
                     CompoundGrowthResult(principal, annual_rate, years,
                         FRound(future_value, 2), FRound(total_growth, 2),
                         FRound(total_return_pct, 2), formatted_summary, None))

calculate_compound_growth(query) ==
    LET body == calculate_compound_growth_try(query)
    IN  TryExcept(body, calculate_compound_growth_except(IF body.kind = "raise"
                                                         THEN body.msg ELSE << >>))

\* ------------------------------------------------ calculate_financial_ratio
FinancialRatioResult(numerator, denominator, ratio_type, ratio_value, description, interpretation, context, formatted_summary, error) ==
    [numerator |-> numerator, denominator |-> denominator, ratio_type |-> ratio_type,
     ratio_value |-> ratio_value, description |-> description,
     interpretation |-> interpretation, context |-> context,
     formatted_summary |-> formatted_summary, error |-> error]

W_pe == <<"p","e">>
W_debt_to_equity == <<"d","e","b","t","_","t","o","_","e","q","u","i","t","y">>
W_current == <<"c","u","r","r","e","n","t">>
W_roe == <<"r","o","e">>
W_generic == <<"g","e","n","e","r","i","c">>
W_error == <<"e","r","r","o","r">>

NumeratorWords == { <<"8","2",".","5","0">>, <<"1","5">>, <<"2","5">>, <<"3","0">>,
                    <<"1">>, <<"1",".","5">>, <<"2">>, <<"0",".","1","5">>,
                    <<"0",".","1","0">>, <<"0",".","2">>, <<"0">>, <<"n","a","n">>,
                    <<"x">> }
DenominatorWords == { <<"5",".","5","0">>, <<"1">>, <<"0">>, <<"-","0",".","0">>,
                      <<"n","a","n">>, <<"1","/","2">> }
TypeWords == { W_pe, <<"P","E">>, W_roe, W_current, W_debt_to_equity,
               <<"x","y","z">> }

RatioWordLists ==
    { << >> }
    \cup { <<n>> : n \in NumeratorWords }
    \cup { <<n, d>> : n \in NumeratorWords, d \in DenominatorWords }
    \cup { <<n, d, t>> : n \in NumeratorWords, d \in DenominatorWords, t \in TypeWords }

RatioQueries == { Padded(pad, w) : pad \in Pads, w \in RatioWordLists }

\* Mutant: the thresholds are compared with >= instead of >.
ratio_info_ge(ratio_value) ==
    [pe |-> <<"Price-to-Earnings Ratio",
              IF FGe(ratio_value, Fin(25, 1)) THEN "High"
              ELSE IF FGe(ratio_value, Fin(15, 1)) THEN "Moderate" ELSE "Low">>,
     debt_to_equity |-> <<"Debt-to-Equity Ratio",
              IF FGe(ratio_value, Fin(1, 1)) THEN "High leverage" ELSE "Conservative">>,
     current |-> <<"Current Ratio",
              IF FGe(ratio_value, Fin(15, 10)) THEN "Good liquidity"
              ELSE "Potential concern">>,
     roe |-> <<"Return on Equity",
              IF FGe(ratio_value, Fin(15, 100)) THEN "Strong"
              ELSE IF FGe(ratio_value, Fin(10, 100)) THEN "Average" ELSE "Weak">>,
     generic |-> <<"Financial Ratio", "Custom calculation">>]

\* The ratio_info table: type -> (description, context).
ratio_info(ratio_value) ==
    [pe |-> <<"Price-to-Earnings Ratio",
              IF FGt(ratio_value, Fin(25, 1)) THEN "High"
              ELSE IF FGt(ratio_value, Fin(15, 1)) THEN "Moderate" ELSE "Low">>,
     debt_to_equity |-> <<"Debt-to-Equity Ratio",
              IF FGt(ratio_value, Fin(1, 1)) THEN "High leverage" ELSE "Conservative">>,
     current |-> <<"Current Ratio",
              IF FGt(ratio_value, Fin(15, 10)) THEN "Good liquidity"
              ELSE "Potential concern">>,
     roe |-> <<"Return on Equity",
              IF FGt(ratio_value, Fin(15, 100)) THEN "Strong"
              ELSE IF FGt(ratio_value, Fin(10, 100)) THEN "Average" ELSE "Weak">>,
     generic |-> <<"Financial Ratio", "Custom calculation">>]

\* ratio_info.get(ratio_type, ratio_info['generic'])
ratio_lookup(ratio_type, ratio_value) ==
    LET info == ratio_info(ratio_value)
    IN  IF ratio_type = W_pe THEN info.pe
        ELSE IF ratio_type = W_debt_to_equity THEN info.debt_to_equity
        ELSE IF ratio_type = W_current THEN info.current
        ELSE IF ratio_type = W_roe THEN info.roe
        ELSE info.generic

\* Mutant: the error record carries ratio_value=0.0.
calculate_financial_ratio_except_zero_value(e) ==
    Ret("except",
        FinancialRatioResult(Zero, Zero, W_error, Some(Zero), None, None, None, None,
                             Some(<<Lit("Calculation error: ")>> \o e)))

calculate_financial_ratio_except(e) ==
    Ret("except",
        FinancialRatioResult(Zero, Zero, W_error, None, None, None, None, None,
                             Some(<<Lit("Calculation error: ")>> \o e)))

calculate_financial_ratio_try(query) ==
    LET parts == split(strip(query))
    IN  IF Len(parts) < 2
        THEN Exc(<<Lit("Query must contain at least numerator and denominator")>>)
        ELSE IF IsNone(ParseFloat(parts[1])) THEN Exc(FloatError(parts[1]))
        ELSE IF IsNone(ParseFloat(parts[2])) THEN Exc(FloatError(parts[2]))
        ELSE
        LET numerator == Get(ParseFloat(parts[1]))
            denominator == Get(ParseFloat(parts[2]))
            ratio_type == IF Len(parts) > 2 THEN lower(parts[3]) ELSE W_generic
            quotient == FDiv(numerator, denominator)
            ratio_value == Get(quotient)
            entry == ratio_lookup(ratio_type, ratio_value)
            description == entry[1]
            context == entry[2]
            interpretation == <<Lit(description), Lit(": "), Num(ratio_value, ".2f")>>
            formatted_summary == interpretation \o <<Lit(" - "), Lit(context)>>
        IN  IF FEq(denominator, Zero) THEN Exc(<<Lit("Denominator cannot be zero")>>)
            ELSE IF IsNone(quotient) THEN Exc(<<Lit("float division by zero")>>)
            ELSE Ret("try",
                     FinancialRatioResult(numerator, denominator, ratio_type,
                         Some(FRound(ratio_value, 4)), Some(description),
                         Some(interpretation), Some(context),
                         Some(formatted_summary), None))

calculate_financial_ratio(query) ==
    LET body == calculate_financial_ratio_try(query)
    IN  TryExcept(body, calculate_financial_ratio_except(IF body.kind = "raise"
                                                         THEN body.msg ELSE << >>))

\* ------------------------------------------------------------ the registry
ComputationTools == <<"get_stock_price", "get_company_info", "get_financial_history",
                      "calculate_compound_growth", "calculate_financial_ratio">>

\* Ways the construction of the search tool ends: built, or an exception
\* (config has no TAVILY_API_KEY; the constructor rejects the key).
TavilyInits == {"ok", "AttributeError", "ValidationError"}

NoCall == [tool |-> "none"]
NoOutcome == [kind |-> "none"]

Init ==
    /\ pc = "try"
    /\ tavily_search = None
    /\ FINANCIAL_TOOLS = None
    /\ call = NoCall
    /\ outcome = NoOutcome

\* tavily_search = TavilySearch(api_key=config.TAVILY_API_KEY, ...)
InitTavily ==
    /\ pc = "try"
    /\ \E how \in TavilyInits :
          IF how = "ok"
          THEN tavily_search' = Some("tavily_search") /\ pc' = "assign"
          ELSE tavily_search' = None /\ pc' = "except"
    /\ UNCHANGED <<FINANCIAL_TOOLS, call, outcome>>

\* FINANCIAL_TOOLS = [..., tavily_search] in the try block
AssignWithSearch ==
    /\ pc = "assign"
    /\ FINANCIAL_TOOLS' = Some(Append(ComputationTools, Get(tavily_search)))
    /\ pc' = "print"
    /\ UNCHANGED <<tavily_search, call, outcome>>

\* Mutant: the except clause re-raises, start-up aborts.
ReraiseWithoutSearch ==
    /\ pc = "except"
    /\ pc' = "aborted"
    /\ UNCHANGED <<tavily_search, FINANCIAL_TOOLS, call, outcome>>

\* except Exception as e: print the warning, FINANCIAL_TOOLS = [the five]
AssignWithoutSearch ==
    /\ pc = "except"
    /\ FINANCIAL_TOOLS' = Some(ComputationTools)
    /\ pc' = "print"
    /\ UNCHANGED <<tavily_search, call, outcome>>

\* print(f"Loaded {len(FINANCIAL_TOOLS)} financial tools")
PrintLoaded ==
    /\ pc = "print"
    /\ IsSome(FINANCIAL_TOOLS)
    /\ pc' = "done"
    /\ UNCHANGED <<tavily_search, FINANCIAL_TOOLS, call, outcome>>

\* ------------------------------------------------------------ the tool calls
\* The module is loaded and no call is in progress.
Idle == pc = "done" /\ call = NoCall

CallGetStockPrice ==
    /\ Idle
    /\ \E symbol \in Symbols, up \in QuoteResponses :
          /\ call' = [tool |-> "get_stock_price", input |-> symbol, upstream |-> up]
          /\ outcome' = get_stock_price(symbol, up)
    /\ UNCHANGED <<pc, tavily_search, FINANCIAL_TOOLS>>

CallGetCompanyInfo ==
    /\ Idle
    /\ \E symbol \in Symbols, up \in ProfileResponses :
          /\ call' = [tool |-> "get_company_info", input |-> symbol, upstream |-> up]
          /\ outcome' = get_company_info(symbol, up)
    /\ UNCHANGED <<pc, tavily_search, FINANCIAL_TOOLS>>

CallGetFinancialHistory ==
    /\ Idle
    /\ \E query \in HistoryQueries, up \in HistoryResponses :
          /\ call' = [tool |-> "get_financial_history", input |-> query, upstream |-> up]
          /\ outcome' = get_financial_history(query, up)
    /\ UNCHANGED <<pc, tavily_search, FINANCIAL_TOOLS>>

CallCalculateCompoundGrowth ==
    /\ Idle
    /\ \E query \in GrowthQueries :
          /\ call' = [tool |-> "calculate_compound_growth", input |-> query]
          /\ outcome' = calculate_compound_growth(query)
    /\ UNCHANGED <<pc, tavily_search, FINANCIAL_TOOLS>>

CallCalculateFinancialRatio ==
    /\ Idle
    /\ \E query \in RatioQueries :
          /\ call' = [tool |-> "calculate_financial_ratio", input |-> query]
          /\ outcome' = calculate_financial_ratio(query)
    /\ UNCHANGED <<pc, tavily_search, FINANCIAL_TOOLS>>

\* The caller takes the result; nothing of the call is kept.
TakeResult ==
    /\ pc = "done"
    /\ call # NoCall
    /\ call' = NoCall
    /\ outcome' = NoOutcome
    /\ UNCHANGED <<pc, tavily_search, FINANCIAL_TOOLS>>

Next ==
    \/ InitTavily
    \/ AssignWithSearch
    \/ AssignWithoutSearch
    \/ PrintLoaded
    \/ CallGetStockPrice
    \/ CallGetCompanyInfo
    \/ CallGetFinancialHistory
    \/ CallCalculateCompoundGrowth
    \/ CallCalculateFinancialRatio
    \/ TakeResult

Spec == Init /\ [][Next]_vars

\* ================================================================ properties
Called(tool) == call.tool = tool
Returned(tool) == call.tool = tool /\ outcome.kind = "return"
\* The call went wrong: the except clause built the record, or the history
\* series was empty.
Failed == call # NoCall /\ outcome.kind = "return" /\ outcome.path \in {"except", "empty"}

\* The summary of the returned record, as an Optional text (business_summary
\* is the only summary of a CompanyInfo).
SummaryOf ==
    IF Called("get_company_info") THEN outcome.value.business_summary
    ELSE IF call.tool \in {"get_stock_price", "calculate_compound_growth"}
         THEN Some(outcome.value.formatted_summary)
    ELSE outcome.value.formatted_summary

EndsWith(text, tail) ==
    /\ Len(text) >= Len(tail)
    /\ \A i \in 1..Len(tail) : text[Len(text) - Len(tail) + i] = tail[i]

\* C1: every call of one of the five tools, whatever the input string and
\* whatever the market-data client does, ends by returning a result record
\* (one with an error field); no exception reaches the caller.
C1_Total ==
    call # NoCall => /\ outcome.kind = "return"
                     /\ "error" \in DOMAIN outcome.value

\* A frame without a Close column makes the body raise, and a record is
\* returned all the same.
C1_Witness ==
    /\ Called("get_financial_history")
    /\ call.upstream.kind = "noclose"
    /\ outcome.kind = "return"
    /\ outcome.path = "except"

\* C2 as stated: a failed call of any of the five tools returns a record
\* with error set and a non-empty summary.
C2_Original ==
    Failed => /\ IsSome(outcome.value.error)
              /\ IsSome(SummaryOf)
              /\ NonEmpty(Get(SummaryOf))

\* C2 as amended: a failed call returns a record with error set; the three
\* market-data tools also carry a non-empty summary (ending with the text of
\* the exception when one was caught), while calculate_compound_growth
\* returns the empty summary and calculate_financial_ratio none, their error
\* being non-empty and starting with "Calculation error: ".
C2_FailureRecord ==
    Failed =>
        /\ IsSome(outcome.value.error)
        /\ call.tool \in {"get_stock_price", "get_company_info", "get_financial_history"}
           => /\ IsSome(SummaryOf)
              /\ NonEmpty(Get(SummaryOf))
              /\ outcome.path = "except"
                 => EndsWith(Get(SummaryOf), Get(outcome.value.error))
        /\ Called("calculate_compound_growth")
           => /\ outcome.value.formatted_summary = << >>
              /\ Head(Get(outcome.value.error)) = Lit("Calculation error: ")
        /\ Called("calculate_financial_ratio")
           => /\ IsNone(outcome.value.formatted_summary)
              /\ Head(Get(outcome.value.error)) = Lit("Calculation error: ")

\* A failed compound-growth call: error set, summary empty.
C2_Witness ==
    /\ Called("calculate_compound_growth")
    /\ Failed
    /\ IsSome(outcome.value.error)
    /\ ~NonEmpty(outcome.value.formatted_summary)

HasPriceField(up) ==
    /\ up.kind = "info"
    /\ \/ up.info.currentPrice.t # "none"
       \/ up.info.regularMarketPrice.t # "none"

\* C3 as stated: get_stock_price returns error unset exactly when the quote
\* has a price field.
C3_Original ==
    Returned("get_stock_price")
    => (IsNone(outcome.value.error) <=> HasPriceField(call.upstream))

\* The value the tool takes for a pair of fields read as "a or b".
Used(a, b) == IF a.t = "none" \/ (a.t = "num" /\ a.v.n = 0) THEN b ELSE a
NothingMalformed(info) ==
    /\ Used(info.currentPrice, info.regularMarketPrice).t # "str"
    /\ Used(info.trailingPE, info.forwardPE).t # "str"
    /\ info.marketCap.t # "str"
    /\ info.fiftyTwoWeekHigh.t # "str"
    /\ info.fiftyTwoWeekLow.t # "str"

\* C3 as amended: get_stock_price returns error unset exactly when the quote
\* was fetched and no value the tool uses is malformed, whether or not the
\* quote has a price field; without a price field current_price is None.
C3_ErrorIffFetchFailed ==
    Returned("get_stock_price")
    => /\ IsNone(outcome.value.error)
          <=> (call.upstream.kind = "info" /\ NothingMalformed(call.upstream.info))
       /\ (IsNone(outcome.value.error) /\ ~HasPriceField(call.upstream))
          => IsNone(outcome.value.current_price)

\* A quote without any price field, returned without error.
C3_Witness ==
    /\ Returned("get_stock_price")
    /\ call.upstream.kind = "info"
    /\ ~HasPriceField(call.upstream)
    /\ IsNone(outcome.value.error)
    /\ IsNone(outcome.value.current_price)

GrowthNumbers(r) == <<r.principal, r.annual_rate, r.years, r.future_value,
                      r.total_growth, r.total_return_percent>>
GrowthSuccessShape(r) ==
    /\ IsNone(r.error)
    /\ FGt(r.principal, Zero)
    /\ FGt(r.years, Zero)
GrowthErrorShape(r) ==
    /\ IsSome(r.error)
    /\ Head(Get(r.error)) = Lit("Calculation error: ")
    /\ \A i \in 1..6 : GrowthNumbers(r)[i] = Zero
\* The word does not parse, or parses to a value <= 0.
NotAPositive(word) ==
    \/ IsNone(ParseFloat(word))
    \/ FLe(Get(ParseFloat(word)), Zero)

\* C4: every record calculate_compound_growth returns is a success record
\* with principal > 0 and years > 0 or an error record with the
\* "Calculation error:" prefix and six zero numbers, never both; fewer than
\* three words, an unparsable word, principal <= 0 or years <= 0 give the
\* error record.
C4_TwoShapes ==
    Returned("calculate_compound_growth")
    => LET r == outcome.value
           words == split(strip(call.input))
       IN  /\ GrowthSuccessShape(r) \/ GrowthErrorShape(r)
           /\ ~(GrowthSuccessShape(r) /\ GrowthErrorShape(r))
           /\ (\/ Len(words) < 3
               \/ IsNone(ParseFloat(words[2]))
               \/ NotAPositive(words[1])
               \/ NotAPositive(words[3]))
              => GrowthErrorShape(r)

\* The words of a ratio query parse and the denominator is not zero.
RatioComputable(words) ==
    /\ Len(words) >= 2
    /\ IsSome(ParseFloat(words[1]))
    /\ IsSome(ParseFloat(words[2]))
    /\ FNe(Get(ParseFloat(words[2])), Zero)

\* numerator / denominator of a returned ratio record, before rounding.
RatioValueOf(r) == FDivIEEE(r.numerator, r.denominator)

\* C5: a ratio query whose numbers parse and whose denominator is not zero
\* succeeds, and its context follows the threshold table with strict ">":
\* pe High iff value > 25, Moderate iff 15 < value <= 25, else Low;
\* debt_to_equity High leverage iff value > 1; current Good liquidity iff
\* value > 1.5; roe Strong iff value > 0.15, Average iff 0.10 < value <= 0.15,
\* else Weak; any other type, or none, the generic entry.
C5_ContextTable ==
    Returned("calculate_financial_ratio")
    => LET r == outcome.value
           words == split(strip(call.input))
           v == RatioValueOf(r)
           t == IF Len(words) > 2 THEN lower(words[3]) ELSE W_generic
           ctx == Get(r.context)
           desc == Get(r.description)
       IN  RatioComputable(words)
           => /\ IsNone(r.error)
              /\ r.ratio_type = t
              /\ IF t = W_pe
                 THEN /\ desc = "Price-to-Earnings Ratio"
                      /\ ctx \in {"High", "Moderate", "Low"}
                      /\ ctx = "High" <=> FGt(v, Fin(25, 1))
                      /\ ctx = "Moderate" <=> (FGt(v, Fin(15, 1)) /\ FLe(v, Fin(25, 1)))
                 ELSE IF t = W_debt_to_equity
                 THEN /\ desc = "Debt-to-Equity Ratio"
                      /\ ctx \in {"High leverage", "Conservative"}
                      /\ ctx = "High leverage" <=> FGt(v, Fin(1, 1))
                 ELSE IF t = W_current
                 THEN /\ desc = "Current Ratio"
                      /\ ctx \in {"Good liquidity", "Potential concern"}
                      /\ ctx = "Good liquidity" <=> FGt(v, Fin(3, 2))
                 ELSE IF t = W_roe
                 THEN /\ desc = "Return on Equity"
                      /\ ctx \in {"Strong", "Average", "Weak"}
                      /\ ctx = "Strong" <=> FGt(v, Fin(3, 20))
                      /\ ctx = "Average" <=> (FGt(v, Fin(1, 10)) /\ FLe(v, Fin(3, 20)))
                 ELSE /\ desc = "Financial Ratio"
                      /\ ctx = "Custom calculation"

\* A pe ratio of exactly 15 is labelled Low.
C5_Witness ==
    /\ Returned("calculate_financial_ratio")
    /\ IsNone(outcome.value.error)
    /\ outcome.value.ratio_type = W_pe
    /\ FEq(RatioValueOf(outcome.value), Fin(15, 1))
    /\ outcome.value.context = Some("Low")

RatioErrorShape(r) ==
    /\ IsSome(r.error)
    /\ r.numerator = Zero
    /\ r.denominator = Zero
    /\ r.ratio_type = W_error
    /\ IsNone(r.ratio_value)

\* C6: a ratio query with fewer than two words, or whose denominator is
\* exactly 0, returns the error record (error set, numerator and denominator
\* 0.0, ratio_type "error", ratio_value unset); every record returned without
\* error has a denominator != 0 and a ratio_value.
C6_ZeroDenominatorRejected ==
    Returned("calculate_financial_ratio")
    => LET r == outcome.value
           words == split(strip(call.input))
       IN  /\ (\/ Len(words) < 2
               \/ /\ IsSome(ParseFloat(words[2]))
                  /\ FEq(Get(ParseFloat(words[2])), Zero))
              => RatioErrorShape(r)
           /\ IsNone(r.error) => /\ FNe(r.denominator, Zero)
                                 /\ IsSome(r.ratio_value)

\* A query with a parsable numerator, a zero denominator and a type.
C6_Witness ==
    /\ Returned("calculate_financial_ratio")
    /\ LET words == split(strip(call.input))
       IN  /\ Len(words) = 3
           /\ IsSome(ParseFloat(words[1]))
           /\ IsSome(ParseFloat(words[2]))
           /\ FEq(Get(ParseFloat(words[2])), Zero)
    /\ RatioErrorShape(outcome.value)

HistoryMetrics(r) == <<r.start_price, r.end_price, r.total_return_percent,
                       r.cagr_percent, r.volatility_percent,
                       r.max_drawdown_percent, r.trading_days>>
EmptySeries(up) == up.kind = "frame" /\ Len(up.close) = 0
NonEmptySeries(up) == up.kind = "frame" /\ Len(up.close) > 0

\* C7: on an empty history series get_financial_history returns error
\* "No data available" and none of the seven metrics; in every record it
\* returns, a metric is populated only if the series was non-empty.
C7_EmptySeries ==
    Returned("get_financial_history")
    => LET r == outcome.value
       IN  /\ EmptySeries(call.upstream)
              => /\ r.error = Some(<<Lit("No data available")>>)
                 /\ \A i \in 1..7 : IsNone(HistoryMetrics(r)[i])
           /\ (\E i \in 1..7 : IsSome(HistoryMetrics(r)[i]))
              => NonEmptySeries(call.upstream)

C7_Witness ==
    /\ Returned("get_financial_history")
    /\ EmptySeries(call.upstream)
    /\ outcome.value.error = Some(<<Lit("No data available")>>)

\* C8: for a non-empty series of (positive) closing prices the returned
\* max_drawdown_percent is <= 0.
C8_DrawdownNotPositive ==
    (Returned("get_financial_history") /\ NonEmptySeries(call.upstream))
    => /\ IsSome(outcome.value.max_drawdown_percent)
       /\ FLe(Get(outcome.value.max_drawdown_percent), Zero)

\* A series that fell from its peak: the drawdown is strictly negative.
C8_Witness ==
    /\ Returned("get_financial_history")
    /\ NonEmptySeries(call.upstream)
    /\ IsSome(outcome.value.max_drawdown_percent)
    /\ FLt(Get(outcome.value.max_drawdown_percent), Zero)

\* C9 as stated: in the returned record total_return_percent >= 0 exactly
\* when end_price >= start_price, and < 0 exactly when end_price < start_price.
C9_Original ==
    (Returned("get_financial_history") /\ NonEmptySeries(call.upstream))
    => LET r == outcome.value
           ret == Get(r.total_return_percent)
       IN  /\ FGe(ret, Zero) <=> FGe(Get(r.end_price), Get(r.start_price))
           /\ FLt(ret, Zero) <=> FLt(Get(r.end_price), Get(r.start_price))

\* C9 as amended: for a non-empty series of positive closes, a returned
\* end_price above start_price comes with total_return_percent >= 0 and one
\* below it with total_return_percent <= 0; total_return_percent is > 0 only
\* if the last close is above the first and < 0 only if it is below.
C9_SignUpToRounding ==
    (Returned("get_financial_history") /\ NonEmptySeries(call.upstream))
    => LET r == outcome.value
           ret == Get(r.total_return_percent)
           first == call.upstream.close[1]
           last == call.upstream.close[Len(call.upstream.close)]
       IN  /\ FGt(Get(r.end_price), Get(r.start_price)) => FGe(ret, Zero)
           /\ FLt(Get(r.end_price), Get(r.start_price)) => FLe(ret, Zero)
           /\ FGt(ret, Zero) => FGt(last, first)
           /\ FLt(ret, Zero) => FLt(last, first)

\* Rounding at work: the returned prices are equal and the return negative.
C9_Witness ==
    /\ Returned("get_financial_history")
    /\ NonEmptySeries(call.upstream)
    /\ FEq(Get(outcome.value.end_price), Get(outcome.value.start_price))
    /\ FLt(Get(outcome.value.total_return_percent), Zero)

StartUp == InitTavily \/ AssignWithSearch \/ AssignWithoutSearch \/ PrintLoaded

\* C10: start-up never stops before its end, and at its end FINANCIAL_TOOLS
\* is the five computation tools in order, followed by the search tool if
\* and only if the search tool was built.
C10_RegistryLoaded ==
    /\ pc # "done" => ENABLED StartUp
    /\ pc = "done"
       => /\ IsSome(FINANCIAL_TOOLS)
          /\ Get(FINANCIAL_TOOLS) =
                <<"get_stock_price", "get_company_info", "get_financial_history",
                  "calculate_compound_growth", "calculate_financial_ratio">>
                \o tavily_search

\* Start-up ended after the search tool failed to initialise.
C10_Witness ==
    /\ pc = "done"
    /\ IsNone(tavily_search)
    /\ Len(Get(FINANCIAL_TOOLS)) = 5

====
